---- MODULE Spec2Model ----
(***************************************************************************)
(* State-machine model of nod_mcu_sunete.ino: the weekly event table, the  *)
(* relay pulse, the scheduler tick, the day replacement handler and the    *)
(* start-up load of the persisted schedule.                                *)
(*                                                                         *)
(* Strings are sequences of ASCII codes, so that parseHH/parseMM compute   *)
(* on characters as the C code does.  unsigned long values are pairs       *)
(* <<hi, lo>> of 16-bit halves, so that 32-bit wrap-around is exact.       *)
(***************************************************************************)
EXTENDS Integers, Sequences, FiniteSets, TLC

VARIABLES
    weekEvents,     \* Event weekEvents[7][MAX_EVENTS_PER_DAY]: day -> the first weekCount[day] entries
    weekCount,      \* int weekCount[7]
    relayOn,        \* bool relayOn
    relayOffAtMs,   \* unsigned long relayOffAtMs
    lastYDay,       \* int lastYDay
    fs,             \* content of /schedule_week.json on LittleFS
    nowMs,          \* millis(): the free-running 32-bit millisecond counter
    clock,          \* the wall clock as localtime_r reports it (struct tm fields)
    pc,             \* "setup", then loop(): "handle" (server.handleClient) / "tick" (schedulerTick)
    last,           \* observation: the operation that made the last step and what it did
    uptime,         \* observation: milliseconds elapsed since the initial state (power-on,
                    \* but for SpecWrap), not wrapped
    pulse,          \* observation: the latest relay command: at: the uptime it was given at,
                    \* dur: the seconds of a relayPulse (0: it was a relayWrite of /ha/switch),
                    \* re: it was a relayPulse given while a pulse was running
    firedLog,       \* observation: the times <<hh, mm>> scheduled pulses were fired at on the
                    \* calendar day the wall clock shows
    response,       \* the JSON document of the latest GET /ha/state response
    seenDays,       \* observation: the days of the year (tm_yday) ticks have read so far
    req             \* the POST /api/day the server is handling, when it is followed statement
                    \* by statement: day, items: the objects of the body, i: the next object,
                    \* before: the day's list before the call, done: it has returned

vars == <<weekEvents, weekCount, relayOn, relayOffAtMs, lastYDay, fs, nowMs,
          clock, pc, last, uptime, pulse, firedLog, response,
          seenDays, req>>

-----------------------------------------------------------------------------
(* Program constants *)

MAX_EVENTS_PER_DAY == 64

NDAYS == 7

DEFAULT_DURATION == 5

Days == 0 .. (NDAYS - 1)

-----------------------------------------------------------------------------
(* Bounds of the model *)

\* time stops being advanced MaxUptimeSec seconds after power-on
MaxUptimeSec == 3

-----------------------------------------------------------------------------
(* 32-bit unsigned arithmetic on <<hi, lo>> pairs of 16-bit halves *)

W16 == 65536

U32Add(a, b) ==
    LET lo == a[2] + b[2]
        hi == a[1] + b[1] + (lo \div W16)
    IN  <<hi % W16, lo % W16>>

U32Sub(a, b) ==
    LET lo == a[2] - b[2]
        hi == a[1] - b[1] - (IF lo < 0 THEN 1 ELSE 0)
    IN  <<hi % W16, lo % W16>>

\* (unsigned long)seconds * 1000UL, for an int seconds >= 0
U32SecToMs(seconds) ==
    LET sh == seconds \div W16
        sl == seconds % W16
        lo == sl * 1000
    IN  <<(sh * 1000 + (lo \div W16)) % W16, lo % W16>>

\* (long)x >= 0 for a 32-bit x
LongNonNeg(x) == x[1] < 32768

\* an int of milliseconds below 2^31 as an unsigned long
U32OfInt(n) == <<n \div W16, n % W16>>

-----------------------------------------------------------------------------
(* Strings and JSON values *)

Ch0 == 48

\* strlen(t)
strlen(t) == Len(t)

parseHH(t) == (t[1] - Ch0) * 10 + (t[2] - Ch0)

parseMM(t) == (t[4] - Ch0) * 10 + (t[5] - Ch0)

\* snprintf(t, 6, "%02d:%02d", hh, mm) for 0 <= hh, mm <= 99
FormatTime(hh, mm) ==
    <<Ch0 + (hh \div 10), Ch0 + (hh % 10), 58, Ch0 + (mm \div 10), Ch0 + (mm % 10)>>

\* a JSON object of a day list; hasDur / hasEn: the member is present
Item(t, hasDur, dur, hasEn, en) ==
    [time |-> t, hasDur |-> hasDur, duration |-> dur, hasEn |-> hasEn, enabled |-> en]

Event(hh, mm, dur, en, fired) ==
    [hh |-> hh, mm |-> mm, duration |-> dur, enabled |-> en, firedToday |-> fired]

-----------------------------------------------------------------------------
(* Default schedule *)

\* const char* times[] of seedDefaultWeek
DefaultTimes ==
  << <<48,48,58,49,48>>, <<48,48,58,49,53>>, <<48,50,58,48,48>>,
     <<48,50,58,51,48>>, <<48,52,58,48,48>>, <<48,52,58,49,53>>,
     <<48,54,58,51,48>>, <<48,55,58,53,53>>, <<48,56,58,48,48>>,
     <<49,48,58,48,48>>, <<49,48,58,48,56>>, <<49,48,58,49,48>>,
     <<49,50,58,48,48>>, <<49,50,58,50,48>>, <<49,50,58,51,53>>,
     <<49,50,58,52,48>>, <<49,53,58,48,48>>, <<49,53,58,48,56>>,
     <<49,53,58,49,48>>, <<49,55,58,48,48>>, <<49,55,58,49,48>>,
     <<49,55,58,49,53>>, <<50,48,58,48,48>>, <<50,48,58,49,53>>,
     <<50,48,58,50,48>>, <<50,50,58,51,48>> >>

Min(a, b) == IF a < b THEN a ELSE b

\* one day's list as seedDefaultWeek fills it
SeedDay ==
    [i \in 1 .. Min(Len(DefaultTimes), MAX_EVENTS_PER_DAY) |->
        Event(parseHH(DefaultTimes[i]), parseMM(DefaultTimes[i]),
              DEFAULT_DURATION, TRUE, FALSE)]

\* the table seedDefaultWeek leaves: the same list on every day
seedDefaultWeek == [d \in Days |-> SeedDay]

CountOf(we) == [d \in Days |-> Len(we[d])]

-----------------------------------------------------------------------------
(* Storage: /schedule_week.json *)

FileAbsent == [kind |-> "absent", hasDays |-> FALSE, days |-> <<>>]

\* a file deserializeJson rejects, or one that cannot be opened for reading
FileGarbage == [kind |-> "garbage", hasDays |-> FALSE, days |-> <<>>]

\* a JSON document; hasDays: doc["days"] is an array, days: its elements
FileDoc(hasDays, days) == [kind |-> "doc", hasDays |-> hasDays, days |-> days]

\* an element of "days": an array of objects, or a value that is no array
DayList(items) == [isArray |-> TRUE, items |-> items]

NoList == [isArray |-> FALSE, items |-> <<>>]

\* the document saveWeekToFS serializes from the table
WeekDoc(we, wc) ==
    FileDoc(TRUE,
        [d \in 1 .. NDAYS |->
            DayList([i \in 1 .. wc[d - 1] |->
                Item(FormatTime(we[d - 1][i].hh, we[d - 1][i].mm),
                     TRUE, we[d - 1][i].duration, TRUE, we[d - 1][i].enabled)])])

\* saveWeekToFS: the file after the call; opened: LittleFS.open(.., "w") succeeded
saveWeekToFS(file, we, wc, opened) == IF opened THEN WeekDoc(we, wc) ELSE file

\* the body of the loop over a day's JSON objects, in loadWeekFromFS and saveDayFromJson:
\* the events stored after the objects items[i..] are read with acc already stored
RECURSIVE ParseItems(_, _, _)
ParseItems(items, i, acc) ==
    IF i > Len(items) \/ Len(acc) >= MAX_EVENTS_PER_DAY THEN acc
    ELSE LET o  == items[i]
             t  == o.time
         IN  IF strlen(t) < 5 THEN ParseItems(items, i + 1, acc)
             ELSE LET hh == parseHH(t)
                      mm == parseMM(t)
                      d0 == IF o.hasDur THEN o.duration ELSE DEFAULT_DURATION
                      du == IF d0 < 1 THEN 1 ELSE d0
                      en == IF o.hasEn THEN o.enabled ELSE TRUE
                  IN  IF hh < 0 \/ hh > 23 \/ mm < 0 \/ mm > 59
                      THEN ParseItems(items, i + 1, acc)
                      ELSE ParseItems(items, i + 1,
                                      Append(acc, Event(hh, mm, du, en, FALSE)))

\* loadWeekFromFS: [ok: its return value, we / wc: the table after it, file: the file
\* after it, saves: calls of saveWeekToFS]; opened: the outcome of opening for writing
loadWeekFromFS(file, we, wc, opened) ==
    IF file.kind = "absent"
    THEN [ok |-> opened, we |-> seedDefaultWeek, wc |-> CountOf(seedDefaultWeek),
          file |-> saveWeekToFS(file, seedDefaultWeek, CountOf(seedDefaultWeek), opened),
          saves |-> 1]
    ELSE IF file.kind = "garbage" \/ ~file.hasDays \/ Len(file.days) # NDAYS
    THEN [ok |-> FALSE, we |-> we, wc |-> wc, file |-> file, saves |-> 0]
    ELSE LET ld == [d \in Days |-> ParseItems(file.days[d + 1].items, 1, <<>>)]
         IN  [ok |-> TRUE, we |-> ld, wc |-> CountOf(ld), file |-> file, saves |-> 0]

\* a JSON text posted to /api/day: invalid (deserializeJson fails), a document that
\* is no array, or an array of objects
JsonInvalid == [kind |-> "invalid", items |-> <<>>]

JsonObject == [kind |-> "object", items |-> <<>>]

JsonArray(items) == [kind |-> "array", items |-> items]

\* a replacement that appends to the day's list instead of starting from weekCount 0
saveDayFromJson_Merge(day, json, file, we, wc, opened) ==
    IF day < 0 \/ day > 6 \/ json.kind # "array"
    THEN [ok |-> FALSE, we |-> we, wc |-> wc, file |-> file, saves |-> 0]
    ELSE LET ev  == ParseItems(json.items, 1, we[day])
             we2 == [we EXCEPT ![day] = ev]
             wc2 == [wc EXCEPT ![day] = Len(ev)]
         IN  [ok |-> opened, we |-> we2, wc |-> wc2,
              file |-> saveWeekToFS(file, we2, wc2, opened), saves |-> 1]

\* a replacement that stores the duration as it is given
saveDayFromJson_NoClamp(day, json, file, we, wc, opened) ==
    IF day < 0 \/ day > 6 \/ json.kind # "array"
    THEN [ok |-> FALSE, we |-> we, wc |-> wc, file |-> file, saves |-> 0]
    ELSE LET kept == SelectSeq(json.items,
                        LAMBDA o : /\ strlen(o.time) >= 5
                                   /\ parseHH(o.time) \in 0 .. 23
                                   /\ parseMM(o.time) \in 0 .. 59)
             ev  == [i \in 1 .. Min(Len(kept), MAX_EVENTS_PER_DAY) |->
                        Event(parseHH(kept[i].time), parseMM(kept[i].time),
                              IF kept[i].hasDur THEN kept[i].duration ELSE DEFAULT_DURATION,
                              IF kept[i].hasEn THEN kept[i].enabled ELSE TRUE, FALSE)]
             we2 == [we EXCEPT ![day] = ev]
             wc2 == [wc EXCEPT ![day] = Len(ev)]
         IN  [ok |-> opened, we |-> we2, wc |-> wc2,
              file |-> saveWeekToFS(file, we2, wc2, opened), saves |-> 1]

\* a replacement that refuses a body of more objects than a day can hold
saveDayFromJson_RejectsLong(day, json, file, we, wc, opened) ==
    IF day < 0 \/ day > 6 \/ json.kind # "array" \/ Len(json.items) > MAX_EVENTS_PER_DAY
    THEN [ok |-> FALSE, we |-> we, wc |-> wc, file |-> file, saves |-> 0]
    ELSE LET ev  == ParseItems(json.items, 1, <<>>)
             we2 == [we EXCEPT ![day] = ev]
             wc2 == [wc EXCEPT ![day] = Len(ev)]
         IN  [ok |-> opened, we |-> we2, wc |-> wc2,
              file |-> saveWeekToFS(file, we2, wc2, opened), saves |-> 1]

\* a replacement that empties the day's list before it looks at the body
saveDayFromJson_ClearFirst(day, json, file, we, wc, opened) ==
    IF day < 0 \/ day > 6
    THEN [ok |-> FALSE, we |-> we, wc |-> wc, file |-> file, saves |-> 0]
    ELSE LET ev  == ParseItems(json.items, 1, <<>>)
             we2 == [we EXCEPT ![day] = ev]
             wc2 == [wc EXCEPT ![day] = Len(ev)]
         IN  IF json.kind # "array"
             THEN [ok |-> FALSE, we |-> we2, wc |-> wc2, file |-> file, saves |-> 0]
             ELSE [ok |-> opened, we |-> we2, wc |-> wc2,
                   file |-> saveWeekToFS(file, we2, wc2, opened), saves |-> 1]

\* saveDayFromJson: [ok, we, wc, file, saves] as for loadWeekFromFS
saveDayFromJson(day, json, file, we, wc, opened) ==
    IF day < 0 \/ day > 6 \/ json.kind # "array"
    THEN [ok |-> FALSE, we |-> we, wc |-> wc, file |-> file, saves |-> 0]
    ELSE LET ev  == ParseItems(json.items, 1, <<>>)
             we2 == [we EXCEPT ![day] = ev]
             wc2 == [wc EXCEPT ![day] = Len(ev)]
         IN  [ok |-> opened, we |-> we2, wc |-> wc2,
              file |-> saveWeekToFS(file, we2, wc2, opened), saves |-> 1]

-----------------------------------------------------------------------------
(* Wall clock *)

\* tm_wday of day-of-year 0 (0 = Sunday)
Jan1WDay == 0

\* the times of day (tm_hour, tm_min) the wall clock is sampled at
TimeVals == { <<0, 10>>, <<23, 59>> }

\* the days of the year (tm_yday) the wall clock is sampled at: a Sunday, the Monday
\* after it and the Sunday a week later
YDayVals == {0, 1, 7}

\* the seconds (tm_sec) the wall clock is sampled at
SecVals == {0, 1}

Tm(yday, hour, min, sec) ==
    [tm_yday |-> yday, tm_wday |-> (yday + Jan1WDay) % NDAYS,
     tm_hour |-> hour, tm_min |-> min, tm_sec |-> sec]

ClockSamples ==
    { Tm(y, t[1], t[2], s) : y \in YDayVals, t \in TimeVals, s \in SecVals }

\* seconds since the start of the year
ClockKey(c) == ((c.tm_yday * 24 + c.tm_hour) * 60 + c.tm_min) * 60 + c.tm_sec

\* a getLocal that hands tm_wday on as it is
getLocal_NoRemap(c) ==
    [hh |-> c.tm_hour, mm |-> c.tm_min, ss |-> c.tm_sec, yday |-> c.tm_yday,
     wday |-> c.tm_wday]

\* getLocal: hh, mm, ss, yday and the Monday-based wday of the table
getLocal(c) ==
    [hh |-> c.tm_hour, mm |-> c.tm_min, ss |-> c.tm_sec, yday |-> c.tm_yday,
     wday |-> IF c.tm_wday = 0 THEN 6 ELSE c.tm_wday - 1]

-----------------------------------------------------------------------------
(* Relay *)

\* the off-deadline relayPulse computes: millis() + (unsigned long)seconds * 1000UL
PulseDeadline(now, seconds) ==
    U32Add(now, U32SecToMs(IF seconds < 1 THEN 1 ELSE seconds))

\* relayPulse(seconds)
relayPulse(seconds) ==
    /\ relayOn' = TRUE
    /\ relayOffAtMs' = PulseDeadline(nowMs, seconds)
    /\ pulse' = [at |-> uptime, dur |-> IF seconds < 1 THEN 1 ELSE seconds,
                 re |-> relayOn /\ pulse.dur > 0]

\* an auto-off test that compares the two unsigned values: relayOn && millis() >= relayOffAtMs
AutoOff_Unsigned(on, now, offAt) ==
    on /\ (now[1] > offAt[1] \/ (now[1] = offAt[1] /\ now[2] >= offAt[2]))

\* the auto-off test of schedulerTick: relayOn && (long)(millis() - relayOffAtMs) >= 0
AutoOff(on, now, offAt) == on /\ LongNonNeg(U32Sub(now, offAt))

-----------------------------------------------------------------------------
(* Initial state: power-on, before setup() *)

\* what the last step did: op, its return value ok, its calls of saveWeekToFS, and for
\* a tick the index of the event it fired (0: none), the weekday it read and the
\* number of firedToday flags its day-change reset cleared
Op(op, ok, saves, fired, day, cleared) ==
    [op |-> op, ok |-> ok, saves |-> saves, fired |-> fired, day |-> day,
     cleared |-> cleared]

\* no POST /api/day is followed
NoReq == [day |-> -1, items |-> <<>>, i |-> 0, before |-> <<>>, done |-> TRUE]

\* no response was sent yet
NoResponse ==
    [relay_on |-> FALSE, day |-> 0, events_today |-> 0, found |-> FALSE,
     next_day |-> -1, next_time |-> <<>>, next_in_min |-> 0]

\* day lists a stored file may hold
ItemA == Item(FormatTime(0, 10), TRUE, 2, TRUE, TRUE)

ItemB == Item(FormatTime(23, 59), TRUE, 1, TRUE, TRUE)

StoredWeek ==
    [d \in 1 .. NDAYS |-> IF d \in {1, NDAYS} THEN DayList(<<ItemA, ItemB>>) ELSE DayList(<<>>)]

PowerOn(files) ==
    /\ weekEvents = [d \in Days |-> <<>>]
    /\ weekCount = [d \in Days |-> 0]
    /\ relayOn = FALSE
    /\ relayOffAtMs = <<0, 0>>
    /\ lastYDay = -1
    /\ fs \in files
    /\ nowMs = <<0, 0>>
    /\ clock \in ClockSamples
    /\ pc = "setup"
    /\ last = Op("init", TRUE, 0, 0, 0, 0)
    /\ uptime = 0
    /\ pulse = [at |-> 0, dur |-> 0, re |-> FALSE]
    /\ firedLog = {}
    /\ response = NoResponse
    /\ seenDays = {}
    /\ req = NoReq

-----------------------------------------------------------------------------
(* setup() *)

\* opened1, opened2: the outcomes of the two possible saveWeekToFS calls;
\* synced: syncTimeNTP succeeded and set the wall clock to c
setup(opened1, opened2, synced, c) ==
    /\ pc = "setup"
    /\ LET r == loadWeekFromFS(fs, weekEvents, weekCount, opened1)
       IN  IF r.ok
           THEN /\ weekEvents' = r.we
                /\ weekCount' = r.wc
                /\ fs' = r.file
                /\ last' = Op("setup", TRUE, r.saves, 0, 0, 0)
           ELSE /\ weekEvents' = seedDefaultWeek
                /\ weekCount' = CountOf(seedDefaultWeek)
                /\ fs' = saveWeekToFS(r.file, seedDefaultWeek,
                                      CountOf(seedDefaultWeek), opened2)
                /\ last' = Op("setup", FALSE, r.saves + 1, 0, 0, 0)
    /\ relayOn' = FALSE
    /\ clock' = IF synced THEN c ELSE clock
    /\ pc' = "handle"
    /\ UNCHANGED <<response, seenDays, req>>
    /\ UNCHANGED <<relayOffAtMs, lastYDay, nowMs, uptime, pulse, firedLog>>

-----------------------------------------------------------------------------
(* loop(): server.handleClient() *)

\* no request is pending, or the request is a read-only GET
noRequest ==
    /\ pc = "handle"
    /\ pc' = "tick"
    /\ last' = Op("none", TRUE, 0, 0, 0, 0)
    /\ UNCHANGED <<response, seenDays, req>>
    /\ UNCHANGED <<weekEvents, weekCount, relayOn, relayOffAtMs, lastYDay, fs,
                   nowMs, clock, uptime, pulse, firedLog>>

\* POST /api/trigger
handleTrigger ==
    /\ pc = "handle"
    /\ relayPulse(DEFAULT_DURATION)
    /\ pc' = "tick"
    /\ last' = Op("trigger", TRUE, 0, 0, 0, 0)
    /\ UNCHANGED <<response, seenDays, req>>
    /\ UNCHANGED <<weekEvents, weekCount, lastYDay, fs, nowMs, clock, uptime, firedLog>>

\* POST /ha/trigger; hasDur: the body holds an integer "duration"
handleHaTrigger(hasDur, dur) ==
    /\ pc = "handle"
    /\ relayPulse(IF hasDur THEN dur ELSE DEFAULT_DURATION)
    /\ pc' = "tick"
    /\ last' = Op("trigger", TRUE, 0, 0, 0, 0)
    /\ UNCHANGED <<response, seenDays, req>>
    /\ UNCHANGED <<weekEvents, weekCount, lastYDay, fs, nowMs, clock, uptime, firedLog>>

\* a switch that leaves the relay on while the deadline of a pulse is pending
handleHaSwitchPost_WaitsForDeadline(parsed, on) ==
    /\ pc = "handle"
    /\ IF parsed
       THEN /\ relayOn' = (on \/ (relayOn /\ ~LongNonNeg(U32Sub(nowMs, relayOffAtMs))))
            /\ pulse' = [at |-> uptime, dur |-> 0, re |-> FALSE]
       ELSE UNCHANGED <<relayOn, pulse>>
    /\ pc' = "tick"
    /\ last' = Op("switch", parsed, 0, 0, 0, 0)
    /\ UNCHANGED <<response, seenDays, req>>
    /\ UNCHANGED <<weekEvents, weekCount, relayOffAtMs, lastYDay, fs, nowMs, clock,
                   uptime, firedLog>>

\* POST /ha/switch; parsed: there is a body and it is JSON; on: doc["on"] | false
handleHaSwitchPost(parsed, on) ==
    /\ pc = "handle"
    /\ IF parsed
       THEN /\ relayOn' = on
            /\ pulse' = [at |-> uptime, dur |-> 0, re |-> FALSE]
       ELSE UNCHANGED <<relayOn, pulse>>
    /\ pc' = "tick"
    /\ last' = Op("switch", parsed, 0, 0, 0, 0)
    /\ UNCHANGED <<response, seenDays, req>>
    /\ UNCHANGED <<weekEvents, weekCount, relayOffAtMs, lastYDay, fs, nowMs, clock,
                   uptime, firedLog>>

\* POST /api/day?d=day with body json; opened: the outcome of opening the file for writing
handleDayPost(day, json, opened) ==
    /\ pc = "handle"
    /\ LET r == saveDayFromJson(day, json, fs, weekEvents, weekCount, opened)
       IN  /\ weekEvents' = r.we
           /\ weekCount' = r.wc
           /\ fs' = r.file
           /\ last' = Op("day", r.ok, r.saves, 0, day, 0)
    /\ pc' = "tick"
    /\ UNCHANGED <<response, seenDays, req>>
    /\ UNCHANGED <<relayOn, relayOffAtMs, lastYDay, nowMs, clock, uptime, pulse, firedLog>>

\* a server that returns to loop() after every statement of the handler
AfterStatement_Yields(returned) == "tick"

\* where control is after a statement of handleDayPost: server.handleClient() runs the
\* handler to its return before loop() goes on to schedulerTick()
AfterStatement(returned) == IF returned THEN "tick" ELSE "day"

\* saveDayFromJson, one pass of its loop: the list after object o is read
StoreItem(o, acc) ==
    IF strlen(o.time) < 5 THEN acc
    ELSE LET hh == parseHH(o.time)
             mm == parseMM(o.time)
             d0 == IF o.hasDur THEN o.duration ELSE DEFAULT_DURATION
         IN  IF hh < 0 \/ hh > 23 \/ mm < 0 \/ mm > 59 THEN acc
             ELSE Append(acc, Event(hh, mm, IF d0 < 1 THEN 1 ELSE d0,
                                    IF o.hasEn THEN o.enabled ELSE TRUE, FALSE))

\* POST /api/day?d=day with an array as body, up to weekCount[day] = 0
dayPostBegin(day, json) ==
    /\ pc = "handle"
    /\ day \in Days /\ json.kind = "array"
    /\ weekCount' = [weekCount EXCEPT ![day] = 0]
    /\ weekEvents' = [weekEvents EXCEPT ![day] = <<>>]
    /\ req' = [day |-> day, items |-> json.items, i |-> 1, before |-> weekEvents[day],
               done |-> FALSE]
    /\ pc' = AfterStatement(FALSE)
    /\ last' = Op("day", FALSE, 0, 0, day, 0)
    /\ UNCHANGED <<relayOn, relayOffAtMs, lastYDay, fs, nowMs, clock, uptime, pulse,
                   firedLog, response, seenDays>>

\* one pass of the loop over the objects of the body
dayPostItem ==
    /\ pc = "day" /\ ~req.done
    /\ req.i <= Len(req.items) /\ weekCount[req.day] < MAX_EVENTS_PER_DAY
    /\ LET ev == StoreItem(req.items[req.i], weekEvents[req.day])
       IN  /\ weekEvents' = [weekEvents EXCEPT ![req.day] = ev]
           /\ weekCount' = [weekCount EXCEPT ![req.day] = Len(ev)]
    /\ req' = [req EXCEPT !.i = req.i + 1]
    /\ pc' = AfterStatement(FALSE)
    /\ UNCHANGED <<relayOn, relayOffAtMs, lastYDay, fs, nowMs, clock, last, uptime, pulse,
                   firedLog, response, seenDays>>

\* the end of the loop: saveWeekToFS and the return to handleClient
dayPostEnd(opened) ==
    /\ pc = "day" /\ ~req.done
    /\ req.i > Len(req.items) \/ weekCount[req.day] >= MAX_EVENTS_PER_DAY
    /\ fs' = saveWeekToFS(fs, weekEvents, weekCount, opened)
    /\ req' = [req EXCEPT !.done = TRUE]
    /\ pc' = AfterStatement(TRUE)
    /\ last' = Op("day", opened, 1, 0, req.day, 0)
    /\ UNCHANGED <<weekEvents, weekCount, relayOn, relayOffAtMs, lastYDay, nowMs, clock,
                   uptime, pulse, firedLog, response, seenDays>>

\* a sync that ends the running pulse: the deadline is set to the current millis()
syncTimeNTP_EndsPulse(synced, c) ==
    /\ pc = "handle"
    /\ clock' = IF synced THEN c ELSE clock
    /\ firedLog' = IF clock'.tm_yday = clock.tm_yday THEN firedLog ELSE {}
    /\ relayOffAtMs' = IF synced THEN nowMs ELSE relayOffAtMs
    /\ pc' = "tick"
    /\ last' = Op("ntp", synced, 0, 0, 0, 0)
    /\ UNCHANGED <<weekEvents, weekCount, relayOn, lastYDay, fs, nowMs, uptime, pulse,
                   response, seenDays, req>>

\* syncTimeNTP, as handleWiFiPortal calls it: sets the wall clock when the epoch is plausible
syncTimeNTP(synced, c) ==
    /\ pc = "handle"
    /\ clock' = IF synced THEN c ELSE clock
    /\ firedLog' = IF clock'.tm_yday = clock.tm_yday THEN firedLog ELSE {}
    /\ pc' = "tick"
    /\ last' = Op("ntp", synced, 0, 0, 0, 0)
    /\ UNCHANGED <<response, seenDays, req>>
    /\ UNCHANGED <<weekEvents, weekCount, relayOn, relayOffAtMs, lastYDay, fs,
                   nowMs, uptime, pulse>>

\* a delta that does not wrap an event of today that is already past to next week
DeltaMin_NoWrap(d, e, t) ==
    LET deltaDay == IF d - t.wday < 0 THEN d - t.wday + 7 ELSE d - t.wday
    IN  deltaDay * 24 * 60 + ((e.hh * 60 + e.mm) - (t.hh * 60 + t.mm))

\* handleHaState: the minutes from now to event e of day d
DeltaMin(d, e, t) ==
    LET deltaDay == IF d - t.wday < 0 THEN d - t.wday + 7 ELSE d - t.wday
        nowMin   == t.hh * 60 + t.mm
        evMin    == e.hh * 60 + e.mm
    IN  IF deltaDay = 0
        THEN IF evMin - nowMin < 0 THEN evMin - nowMin + 7 * 24 * 60 ELSE evMin - nowMin
        ELSE deltaDay * 24 * 60 + (evMin - nowMin)

\* handleHaState: the loops over d and i from event i of day d on, with best =
\* [day: bestDay, idx: bestIdx, delta: bestDeltaMin] so far
RECURSIVE ScanWeek(_, _, _, _, _, _)
ScanWeek(we, wc, t, d, i, best) ==
    IF d > 6 THEN best
    ELSE IF i > wc[d] THEN ScanWeek(we, wc, t, d + 1, 1, best)
    ELSE IF ~we[d][i].enabled THEN ScanWeek(we, wc, t, d, i + 1, best)
    ELSE LET delta == DeltaMin(d, we[d][i], t)
         IN  IF delta < best.delta
             THEN ScanWeek(we, wc, t, d, i + 1, [day |-> d, idx |-> i, delta |-> delta])
             ELSE ScanWeek(we, wc, t, d, i + 1, best)

\* GET /ha/state
handleHaState ==
    /\ pc = "handle"
    /\ LET t == getLocal(clock)
           b == ScanWeek(weekEvents, weekCount, t, 0, 1,
                         [day |-> -1, idx |-> -1, delta |-> 8 * 24 * 60])
       IN  response' =
              [relay_on |-> relayOn, day |-> t.wday, events_today |-> weekCount[t.wday],
               found |-> b.day >= 0, next_day |-> b.day,
               next_time |-> IF b.day >= 0
                             THEN FormatTime(weekEvents[b.day][b.idx].hh,
                                             weekEvents[b.day][b.idx].mm)
                             ELSE <<>>,
               next_in_min |-> IF b.day >= 0 THEN b.delta ELSE 0]
    /\ pc' = "tick"
    /\ last' = Op("state", TRUE, 0, 0, 0, 0)
    /\ UNCHANGED <<weekEvents, weekCount, relayOn, relayOffAtMs, lastYDay, fs, nowMs,
                   clock, uptime, pulse, firedLog, seenDays, req>>

-----------------------------------------------------------------------------
(* loop(): schedulerTick() *)

\* a reset that re-arms every event: it clears firedToday and sets enabled
ClearFired_Rearm(we) ==
    [d \in Days |->
        [i \in 1 .. Len(we[d]) |->
            [we[d][i] EXCEPT !.firedToday = FALSE, !.enabled = TRUE]]]

\* a reset that clears the flags of the current weekday's list only
ClearFired_TodayOnly(we) ==
    [d \in Days |->
        IF d = getLocal(clock).wday
        THEN [i \in 1 .. Len(we[d]) |-> [we[d][i] EXCEPT !.firedToday = FALSE]]
        ELSE we[d]]

\* the table with every firedToday cleared
ClearFired(we) ==
    [d \in Days |-> [i \in 1 .. Len(we[d]) |-> [we[d][i] EXCEPT !.firedToday = FALSE]]]

RECURSIVE SumTo(_, _)
SumTo(f, n) == IF n < 0 THEN 0 ELSE f[n] + SumTo(f, n - 1)

\* the number of events whose firedToday is set
NumFired(we) ==
    SumTo([d \in Days |-> Cardinality({i \in 1 .. Len(we[d]) : we[d][i].firedToday})],
          NDAYS - 1)

\* a scan that does not look at enabled
Matches_IgnoreEnabled(e, hh, mm) == ~e.firedToday /\ e.hh = hh /\ e.mm = mm

\* a scan that catches up on events whose minute has passed
Matches_CatchUp(e, hh, mm) ==
    e.enabled /\ ~e.firedToday /\ (e.hh * 60 + e.mm <= hh * 60 + mm)

\* a scan that does not look at firedToday
Matches_IgnoreFired(e, hh, mm) == e.enabled /\ e.hh = hh /\ e.mm = mm

Matches(e, hh, mm) == e.enabled /\ ~e.firedToday /\ e.hh = hh /\ e.mm = mm

\* a scan without the break: the last matching event is the one fired
FirstMatch_Last(list, hh, mm) ==
    IF \E i \in 1 .. Len(list) : Matches(list[i], hh, mm)
    THEN CHOOSE i \in 1 .. Len(list) :
            /\ Matches(list[i], hh, mm)
            /\ \A j \in (i + 1) .. Len(list) : ~Matches(list[j], hh, mm)
    ELSE 0

\* the index of the event the scan of today's list stops at; 0: none
FirstMatch(list, hh, mm) ==
    IF \E i \in 1 .. Len(list) : Matches(list[i], hh, mm)
    THEN CHOOSE i \in 1 .. Len(list) :
            /\ Matches(list[i], hh, mm)
            /\ \A j \in 1 .. (i - 1) : ~Matches(list[j], hh, mm)
    ELSE 0

schedulerTick ==
    /\ pc = "tick"
    /\ LET t   == getLocal(clock)
           we1 == IF lastYDay # t.yday THEN ClearFired(weekEvents) ELSE weekEvents
           off == AutoOff(relayOn, nowMs, relayOffAtMs)
           k   == IF t.ss # 0 THEN 0 ELSE FirstMatch(we1[t.wday], t.hh, t.mm)
       IN  /\ lastYDay' = t.yday
           /\ IF k = 0
              THEN /\ weekEvents' = we1
                   /\ relayOn' = IF off THEN FALSE ELSE relayOn
                   /\ UNCHANGED <<relayOffAtMs, pulse, firedLog>>
              ELSE /\ weekEvents' = [we1 EXCEPT ![t.wday][k].firedToday = TRUE]
                   /\ relayPulse(we1[t.wday][k].duration)
                   /\ firedLog' = firedLog \cup {<<t.hh, t.mm>>}
           /\ last' = Op("tick", TRUE, 0, k, t.wday,
                         IF lastYDay # t.yday THEN NumFired(weekEvents) ELSE 0)
           /\ seenDays' = seenDays \cup {t.yday}
    /\ pc' = "handle"
    /\ UNCHANGED <<response, req>>
    /\ UNCHANGED <<weekCount, fs, nowMs, clock, uptime>>

-----------------------------------------------------------------------------
(* Time *)

\* milliseconds by which millis() advances between two steps
AdvanceMillis(dt) ==
    /\ pc # "setup"
    /\ uptime + dt <= MaxUptimeSec * 1000
    /\ uptime' = uptime + dt
    /\ nowMs' = U32Add(nowMs, U32OfInt(dt))
    /\ last' = Op("time", TRUE, 0, 0, 0, 0)
    /\ UNCHANGED <<response, seenDays, req>>
    /\ UNCHANGED <<weekEvents, weekCount, relayOn, relayOffAtMs, lastYDay, fs,
                   clock, pc, pulse, firedLog>>

\* the wall clock moves on to a later sample
AdvanceClock(c) ==
    /\ pc # "setup"
    /\ ClockKey(c) > ClockKey(clock)
    /\ clock' = c
    /\ firedLog' = IF c.tm_yday = clock.tm_yday THEN firedLog ELSE {}
    /\ last' = Op("time", TRUE, 0, 0, 0, 0)
    /\ UNCHANGED <<response, seenDays, req>>
    /\ UNCHANGED <<weekEvents, weekCount, relayOn, relayOffAtMs, lastYDay, fs,
                   nowMs, pc, uptime, pulse>>

-----------------------------------------------------------------------------
(* Inputs and specifications *)

BadItem == Item(<<98, 97, 100>>, TRUE, 5, TRUE, TRUE)

\* two enabled events at 00:10, of 2 and 1 seconds
JsonTwins == JsonArray(<<ItemA, Item(FormatTime(0, 10), TRUE, 1, TRUE, TRUE)>>)

\* one enabled event at 00:10 of 10 seconds, one disabled at 23:59
JsonMixed ==
    JsonArray(<<Item(FormatTime(0, 10), TRUE, 10, TRUE, TRUE),
                Item(FormatTime(23, 59), TRUE, 3, TRUE, FALSE)>>)

\* The scheduler: the table is loaded from a stored file, Sunday's list is replaced,
\* pulses are triggered by hand and the clock moves forward.
Init == PowerOn({FileDoc(TRUE, StoredWeek)})

Next ==
    \/ \E sy \in BOOLEAN : \E c \in ClockSamples : setup(TRUE, TRUE, sy, c)
    \/ noRequest
    \/ handleTrigger
    \/ \E day \in {6} : \E j \in {JsonTwins, JsonMixed} : handleDayPost(day, j, TRUE)
    \/ schedulerTick
    \/ AdvanceMillis(1000)
    \/ \E c \in ClockSamples : AdvanceClock(c)

Spec == Init /\ [][Next]_vars

\* The pulse: pulses are triggered and the relay is switched over /ha, and millis()
\* advances in steps of half a second and of a second.
TriggerDurs == {0, 2, 2147484}

InitPulse == PowerOn({FileDoc(TRUE, StoredWeek)})

NextPulse ==
    \/ \E sy \in BOOLEAN : \E c \in ClockSamples : setup(TRUE, TRUE, sy, c)
    \/ noRequest
    \/ handleTrigger
    \/ \E hd \in BOOLEAN : \E d \in TriggerDurs : handleHaTrigger(hd, d)
    \/ \E p, on \in BOOLEAN : handleHaSwitchPost(p, on)
    \/ schedulerTick
    \/ \E dt \in {500, 1000} : AdvanceMillis(dt)

SpecPulse == InitPulse /\ [][NextPulse]_vars

\* the values of the argument d of POST /api/day
DayArgs == {-1, 0, 3, 7}

\* The table: setup() finds any of the files, and days are replaced by any of the
\* bodies, with the file system accepting or refusing each write.  The wall clock
\* stands at 00:10:00 of a Sunday.
Files ==
    { FileAbsent, FileGarbage, FileDoc(FALSE, <<>>),
      FileDoc(TRUE, SubSeq(StoredWeek, 1, 5)),
      FileDoc(TRUE, StoredWeek \o <<DayList(<<ItemA>>)>>),
      FileDoc(TRUE, [d \in 1 .. NDAYS |-> NoList]),
      FileDoc(TRUE, [StoredWeek EXCEPT ![2] =
                        DayList(<<ItemA, BadItem, ItemB,
                                  Item(FormatTime(24, 0), TRUE, 0, TRUE, TRUE),
                                  Item(FormatTime(7, 5), TRUE, -3, TRUE, TRUE)>>)]),
      FileDoc(TRUE, StoredWeek) }

\* "09:00" 10 s, "bad", "10:00" 0 s without "enabled"
JsonExample ==
    JsonArray(<<Item(FormatTime(9, 0), TRUE, 10, TRUE, TRUE), BadItem,
                Item(FormatTime(10, 0), TRUE, 0, FALSE, FALSE)>>)

\* "24:00", "12:60", "ab:cd", "" and an object without "time" or "duration"
JsonRejected ==
    JsonArray(<<Item(FormatTime(24, 0), TRUE, 5, TRUE, TRUE),
                Item(FormatTime(12, 60), TRUE, 5, TRUE, TRUE),
                Item(<<97, 98, 58, 99, 100>>, TRUE, 5, TRUE, TRUE),
                Item(<<>>, FALSE, 0, FALSE, FALSE),
                Item(FormatTime(7, 5), FALSE, 0, TRUE, FALSE)>>)

\* "09-30", "1:300" and "08:15:30"
JsonSloppy ==
    JsonArray(<<Item(<<48, 57, 45, 51, 48>>, TRUE, 5, TRUE, TRUE),
                Item(<<49, 58, 51, 48, 48>>, TRUE, 5, TRUE, TRUE),
                Item(<<48, 56, 58, 49, 53, 58, 51, 48>>, TRUE, 5, TRUE, TRUE)>>)

TablePayloads == {JsonInvalid, JsonObject, JsonArray(<<>>), JsonExample, JsonRejected, JsonSloppy}

InitTable == PowerOn(Files) /\ clock = Tm(0, 0, 10, 0)

NextTable ==
    \/ \E o1, o2 \in BOOLEAN : setup(o1, o2, FALSE, clock)
    \/ noRequest
    \/ \E day \in DayArgs : \E j \in TablePayloads : \E o \in BOOLEAN :
          handleDayPost(day, j, o)
    \/ schedulerTick

SpecTable == InitTable /\ [][NextTable]_vars

\* The state report: setup() loads one of the stored tables, the wall clock is set and
\* moves on, and GET /ha/state is answered.
ItemWed16 == Item(FormatTime(16, 0), TRUE, 1, TRUE, TRUE)

ItemWed18 == Item(FormatTime(18, 0), TRUE, 1, TRUE, TRUE)

ItemMon08 == Item(FormatTime(8, 0), TRUE, 1, TRUE, TRUE)

ItemOff == Item(FormatTime(17, 30), TRUE, 1, TRUE, FALSE)

NoEvents == [d \in 1 .. NDAYS |-> DayList(<<>>)]

\* Wednesday 16:00 and 18:00, and a disabled 17:30; Monday 08:00 and a disabled Sunday
\* 17:30; disabled events only; no events; StoredWeek
StateFiles ==
    { FileDoc(TRUE, [NoEvents EXCEPT ![3] = DayList(<<ItemWed16, ItemOff, ItemWed18>>)]),
      FileDoc(TRUE, [NoEvents EXCEPT ![1] = DayList(<<ItemMon08>>),
                                     ![NDAYS] = DayList(<<ItemOff>>)]),
      FileDoc(TRUE, [NoEvents EXCEPT ![3] = DayList(<<ItemOff>>)]),
      FileDoc(TRUE, NoEvents),
      FileDoc(TRUE, StoredWeek) }

\* Wednesday 17:00:00, 18:00:00 and 18:01:00, and the ClockSamples
StateClocks == {Tm(3, 17, 0, 0), Tm(3, 18, 0, 0), Tm(3, 18, 1, 0)} \cup ClockSamples

InitState == PowerOn(StateFiles)

NextState ==
    \/ \E sy \in BOOLEAN : \E c \in StateClocks : setup(TRUE, TRUE, sy, c)
    \/ noRequest
    \/ handleHaState
    \/ schedulerTick
    \/ \E c \in StateClocks : AdvanceClock(c)

SpecState == InitState /\ [][NextState]_vars

\* The week: the wall clock passes 00:10:00 of every day of a week, ticks run and
\* GET /ha/state is answered.
WeekClocks == {Tm(y, 0, 10, 0) : y \in Days}

InitWeek == PowerOn({FileDoc(TRUE, StoredWeek)})

NextWeek ==
    \/ \E sy \in BOOLEAN : \E c \in WeekClocks : setup(TRUE, TRUE, sy, c)
    \/ noRequest
    \/ handleHaState
    \/ schedulerTick
    \/ \E c \in WeekClocks : AdvanceClock(c)

SpecWeek == InitWeek /\ [][NextWeek]_vars

\* The clock: the wall clock is set, forwards or backwards, by syncTimeNTP between
\* ticks.
InitClock == PowerOn({FileDoc(TRUE, StoredWeek)})

NextClock ==
    \/ \E sy \in BOOLEAN : \E c \in ClockSamples : setup(TRUE, TRUE, sy, c)
    \/ noRequest
    \/ \E sy \in BOOLEAN : \E c \in ClockSamples : syncTimeNTP(sy, c)
    \/ schedulerTick

SpecClock == InitClock /\ [][NextClock]_vars

\* The handler in steps: POST /api/day is followed statement by statement, on Sunday
\* at 00:10:00.
InitSteps == PowerOn({FileDoc(TRUE, StoredWeek)}) /\ clock = Tm(0, 0, 10, 0)

NextSteps ==
    \/ setup(TRUE, TRUE, FALSE, clock)
    \/ noRequest
    \/ \E day \in {0, 6} : \E j \in {JsonTwins, JsonExample, JsonSloppy} : dayPostBegin(day, j)
    \/ dayPostItem
    \/ \E o \in BOOLEAN : dayPostEnd(o)
    \/ schedulerTick

SpecSteps == InitSteps /\ [][NextSteps]_vars

\* The capacity: lists of MAX_EVENTS_PER_DAY + 1 events, at 00:00, 00:01, ... with
\* durations 1, 2, ..., are found in the stored file and posted.
LongItems ==
    [i \in 1 .. (MAX_EVENTS_PER_DAY + 1) |->
        Item(FormatTime((i - 1) \div 60, (i - 1) % 60), TRUE, i, TRUE, TRUE)]

JsonLong == JsonArray(LongItems)

FileLong == FileDoc(TRUE, [StoredWeek EXCEPT ![3] = DayList(LongItems)])

InitCapacity ==
    PowerOn({FileAbsent, FileLong, FileDoc(TRUE, StoredWeek)}) /\ clock = Tm(0, 0, 10, 0)

NextCapacity ==
    \/ \E o1, o2 \in BOOLEAN : setup(o1, o2, FALSE, clock)
    \/ noRequest
    \/ \E day \in {0, 2} : \E j \in {JsonLong, JsonExample, JsonArray(<<>>)} :
          \E o \in BOOLEAN : handleDayPost(day, j, o)
    \/ schedulerTick

SpecCapacity == InitCapacity /\ [][NextCapacity]_vars

\* The clock during a pulse: pulses of 1 and 2 seconds are triggered, millis() advances
\* and syncTimeNTP sets the wall clock a second back, to the next day or a week on.
SyncClocks == {Tm(0, 0, 10, 0), Tm(1, 23, 59, 1), Tm(7, 0, 10, 1)}

InitSync == PowerOn({FileDoc(TRUE, StoredWeek)}) /\ clock = Tm(0, 0, 10, 1)

NextSync ==
    \/ setup(TRUE, TRUE, FALSE, clock)
    \/ noRequest
    \/ \E d \in {1, 2} : handleHaTrigger(TRUE, d)
    \/ \E sy \in BOOLEAN : \E c \in SyncClocks : syncTimeNTP(sy, c)
    \/ schedulerTick
    \/ \E dt \in {500, 1000} : AdvanceMillis(dt)

SpecSync == InitSync /\ [][NextSync]_vars

\* The wrap of millis(): the device has been up for 49 days with an empty table and no
\* pulse so far, and millis() is 2500, 1000 or 500 ms before 2^32; pulses are triggered
\* and millis() advances past the wrap.
WrapStarts == {<<W16 - 1, W16 - 2500>>, <<W16 - 1, W16 - 1000>>, <<W16 - 1, W16 - 500>>}

InitWrap ==
    /\ weekEvents = [d \in Days |-> <<>>]
    /\ weekCount = [d \in Days |-> 0]
    /\ relayOn = FALSE
    /\ relayOffAtMs = <<0, 0>>
    /\ clock = Tm(49, 0, 10, 1)
    /\ lastYDay = clock.tm_yday
    /\ fs = WeekDoc(weekEvents, weekCount)
    /\ nowMs \in WrapStarts
    /\ pc = "handle"
    /\ last = Op("time", TRUE, 0, 0, 0, 0)
    /\ uptime = 0
    /\ pulse = [at |-> 0, dur |-> 0, re |-> FALSE]
    /\ firedLog = {}
    /\ response = NoResponse
    /\ seenDays = 0 .. clock.tm_yday
    /\ req = NoReq

NextWrap ==
    \/ noRequest
    \/ \E hd \in BOOLEAN : \E d \in TriggerDurs \cup {1} : handleHaTrigger(hd, d)
    \/ schedulerTick
    \/ \E dt \in {500, 1000} : AdvanceMillis(dt)

SpecWrap == InitWrap /\ [][NextWrap]_vars

-----------------------------------------------------------------------------
(* Properties of the scheduler tick, under Spec *)

\* a step of schedulerTick
TickStep == pc = "tick" /\ pc' = "handle"

\* the clock snapshot the tick takes
Now == getLocal(clock)

SameTime(e, hh, mm) == e.hh = hh /\ e.mm = mm

\* event j of today's list is matched by a tick taken now: it is enabled, at the
\* current minute, and not fired today (a flag of another day is reset by the tick)
MatchedNow(j) ==
    LET f == weekEvents[Now.wday][j]
    IN  /\ f.enabled
        /\ SameTime(f, Now.hh, Now.mm)
        /\ (~f.firedToday \/ lastYDay # Now.yday)

\* C1: a tick at h:m:00 with an enabled, unfired event (h, m, d) in today's list and no
\* earlier matching event triggers exactly one pulse, of d seconds (relay on, deadline
\* millis() + d * 1000), and sets that event's firedToday.
C1_TickFiresMatchingEvent ==
    [][TickStep /\ Now.ss = 0 =>
        \A i \in 1 .. weekCount[Now.wday] :
            LET e == weekEvents[Now.wday][i]
            IN  ( /\ e.enabled /\ ~e.firedToday /\ SameTime(e, Now.hh, Now.mm)
                  /\ e.duration >= 1
                  /\ \A j \in 1 .. (i - 1) : ~MatchedNow(j) )
                => /\ weekEvents'[Now.wday][i].firedToday
                   /\ relayOn'
                   /\ relayOffAtMs' = U32Add(nowMs, U32SecToMs(e.duration))
                   /\ last'.fired = i
                   /\ pulse'.at = uptime /\ pulse'.dur = e.duration
                   /\ \A j \in (1 .. weekCount[Now.wday]) \ {i} :
                         weekEvents'[Now.wday][j].firedToday
                            => (weekEvents[Now.wday][j].firedToday /\ lastYDay = Now.yday)
    ]_vars

\* a tick, taken a second or more after power-on, has just fired a 2-second event
C1_Witness ==
    /\ last.op = "tick" /\ last.fired > 0 /\ uptime > 0
    /\ LET e == weekEvents[last.day][last.fired]
       IN  /\ e.firedToday /\ e.duration = 2
           /\ relayOn
           /\ relayOffAtMs = U32Add(nowMs, <<0, 2000>>)

\* C2: a scheduled time of today's list, sampled at second 0, produces one scheduled
\* pulse that calendar day and never two, whatever ticks, day replacements and manual
\* triggers are interleaved.
C2_OncePerScheduledTimePerDay ==
    [][( /\ TickStep /\ Now.ss = 0
         /\ \E i \in 1 .. weekCount[Now.wday] :
               LET e == weekEvents[Now.wday][i]
               IN  e.enabled /\ SameTime(e, Now.hh, Now.mm) )
        => IF <<Now.hh, Now.mm>> \in firedLog THEN last'.fired = 0 ELSE last'.fired > 0
    ]_vars

\* C3: of two enabled events of today's list at the same (hour, minute), only the first
\* in list order fires in that minute: no tick fires an event that has an earlier
\* enabled twin once a scheduled pulse was fired at that time today.
C3_OnlyFirstTwinFires ==
    [][TickStep /\ last'.fired > 0 =>
        LET L == weekEvents'[Now.wday]
            k == last'.fired
        IN  \A j \in 1 .. (k - 1) :
                ~( /\ L[j].enabled /\ SameTime(L[j], L[k].hh, L[k].mm)
                   /\ <<L[k].hh, L[k].mm>> \in firedLog )
    ]_vars

\* C4: a tick that sees the day of year unchanged fires no event whose firedToday is
\* set and leaves the flag set.
C4_FiredNotRefired ==
    [][TickStep /\ lastYDay = Now.yday =>
        \A d \in Days : \A i \in 1 .. weekCount[d] :
            weekEvents[d][i].firedToday =>
                /\ weekEvents'[d][i].firedToday
                /\ ~(d = Now.wday /\ last'.fired = i)
    ]_vars

\* a tick at second 0 of the minute of an enabled event fired today has fired nothing
C4_Witness ==
    /\ last.op = "tick" /\ last.fired = 0 /\ last.cleared = 0
    /\ Now.ss = 0 /\ lastYDay = Now.yday
    /\ \E i \in 1 .. weekCount[Now.wday] :
          LET e == weekEvents[Now.wday][i]
          IN  e.enabled /\ e.firedToday /\ SameTime(e, Now.hh, Now.mm)

\* C5: a tick that sees a day of year other than the recorded one records it and clears
\* firedToday on every event of all 7 days before matching: after it only the event it
\* fired itself is flagged, and an enabled event at the current minute fires whatever
\* its flag was.
C5_DayChangeClearsAll ==
    [][TickStep /\ lastYDay # Now.yday =>
        /\ lastYDay' = Now.yday
        /\ \A d \in Days : \A i \in 1 .. weekCount'[d] :
              weekEvents'[d][i].firedToday => (d = Now.wday /\ i = last'.fired)
        /\ ( /\ Now.ss = 0
             /\ \E i \in 1 .. weekCount[Now.wday] :
                   LET e == weekEvents[Now.wday][i]
                   IN  e.enabled /\ SameTime(e, Now.hh, Now.mm) )
           => last'.fired > 0
    ]_vars

\* a tick on a new day cleared two or more flags and fired an event
C5_Witness ==
    /\ last.op = "tick" /\ last.cleared > 1 /\ last.fired > 0
    /\ lastYDay = Now.yday
    /\ weekEvents[Now.wday][last.fired].firedToday
    /\ NumFired(weekEvents) = 1

-----------------------------------------------------------------------------
(* Properties of the pulse, under SpecPulse *)

\* the relay after a tick is on exactly while less than pulse.dur seconds have passed
\* since the latest relayPulse
OnUntilDeadline == relayOn' <=> ((uptime - pulse'.at) \div 1000 < pulse'.dur)

\* C6: a trigger of d2 seconds given while a pulse is running replaces the deadline by
\* the time of that call + d2 seconds, for every d2 >= 1: the relay stays on at every
\* tick before it and the first tick at or after it switches the relay off.
C6_RetriggerReplacesDeadline ==
    [][ /\ (last'.op = "trigger" /\ relayOn /\ pulse.dur > 0)
            => (relayOn' /\ relayOffAtMs' = U32Add(nowMs, U32SecToMs(pulse'.dur)))
        /\ (TickStep /\ pulse'.dur > 0 /\ pulse'.re) => OnUntilDeadline
    ]_vars

\* C7: after a trigger of d seconds, for any d >= 1, with no later trigger or switch
\* command, the relay is on after every tick taken before trigger time + d seconds and
\* off after every tick taken at or after it.
C7_PulseEndsAtDeadline ==
    [][(TickStep /\ pulse'.dur > 0) => OnUntilDeadline]_vars

-----------------------------------------------------------------------------
(* Properties of the table, under SpecTable *)

IsDigit(c) == c >= Ch0 /\ c <= Ch0 + 9

\* t is HH:MM: two digits, a colon, two digits, hour 0..23, minute 0..59
WellFormed(t) ==
    /\ Len(t) = 5
    /\ IsDigit(t[1]) /\ IsDigit(t[2]) /\ t[3] = 58 /\ IsDigit(t[4]) /\ IsDigit(t[5])
    /\ parseHH(t) <= 23 /\ parseMM(t) <= 59

\* the event an object with a well-formed time stands for
EventOf(o) ==
    Event(parseHH(o.time), parseMM(o.time),
          IF ~o.hasDur THEN DEFAULT_DURATION ELSE IF o.duration < 1 THEN 1 ELSE o.duration,
          IF o.hasEn THEN o.enabled ELSE TRUE, FALSE)

\* the events of the objects with a well-formed time, in input order
WellFormedEvents(items) ==
    LET ok == SelectSeq(items, LAMBDA o : WellFormed(o.time))
    IN  [i \in 1 .. Len(ok) |-> EventOf(ok[i])]

\* C8: replacing a day by an array stores exactly the objects whose time is a
\* well-formed HH:MM, in input order, with duration max(1, given), enabled defaulting
\* to true and firedToday false, and calls saveWeekToFS exactly once.
C8_ReplaceStoresWellFormed ==
    [][\A day \in Days : \A j \in TablePayloads : \A o \in BOOLEAN :
          (handleDayPost(day, j, o) /\ j.kind = "array")
             => /\ weekEvents'[day] = WellFormedEvents(j.items)
                /\ weekCount'[day] = Len(WellFormedEvents(j.items))
                /\ last'.saves = 1
    ]_vars

\* C9: a successful replacement of a day leaves nothing of the day's earlier list (every
\* stored event stems from an object of the body, no earlier in it) and leaves the lists,
\* counts and flags of the other six days as they were.
C9_ReplaceIsWholesale ==
    [][(pc = "handle" /\ last'.op = "day" /\ last'.ok)
          => LET day == last'.day
             IN  /\ \A d \in Days \ {day} :
                       weekEvents'[d] = weekEvents[d] /\ weekCount'[d] = weekCount[d]
                 /\ weekCount'[day] = Len(weekEvents'[day])
                 /\ \E j \in TablePayloads :
                       /\ handleDayPost(day, j, TRUE)
                       /\ weekCount'[day] <= Len(j.items)
                       /\ \A a \in 1 .. weekCount'[day] : \E b \in a .. Len(j.items) :
                             LET e == weekEvents'[day][a]
                                 o == j.items[b]
                             IN  /\ Len(o.time) >= 5
                                 /\ e.hh = parseHH(o.time) /\ e.mm = parseMM(o.time)
                                 /\ ~e.firedToday
    ]_vars

\* day 3 of the default table was replaced by the events of JsonExample
C9_Witness ==
    /\ last.op = "day" /\ last.ok /\ last.day = 3
    /\ weekEvents[3] = <<Event(9, 0, 10, TRUE, FALSE), Event(10, 0, 1, TRUE, FALSE)>>
    /\ \A d \in Days \ {3} : weekEvents[d] = SeedDay

\* the file holds exactly 7 day lists
SevenDayLists(file) ==
    /\ file.kind = "doc" /\ file.hasDays /\ Len(file.days) = NDAYS
    /\ \A d \in 1 .. NDAYS : file.days[d].isArray

\* C10: when the stored file is absent, unparseable or does not hold exactly 7 day lists,
\* setup() ends with the table equal to the default one (on each day the 26 events,
\* 5 s, enabled, not fired) and with that table saved (or the write refused by the
\* file system).
C10_BadFileSeedsDefault ==
    [][(pc = "setup" /\ pc' = "handle" /\ ~SevenDayLists(fs))
          => /\ weekEvents' = seedDefaultWeek
             /\ weekCount' = [d \in Days |-> 26]
             /\ last'.saves >= 1
             /\ (fs' = WeekDoc(seedDefaultWeek, CountOf(seedDefaultWeek)) \/ fs' = fs)
    ]_vars

\* C11: loadWeekFromFS reports failure whenever an event of the stored file has a time
\* that is not a well-formed HH:MM, and setup() then seeds the default table and saves it.
C11_LoadFailsOnMalformedTime ==
    [][( /\ pc = "setup" /\ pc' = "handle" /\ SevenDayLists(fs)
         /\ \E d \in 1 .. NDAYS : \E i \in 1 .. Len(fs.days[d].items) :
               ~WellFormed(fs.days[d].items[i].time) )
          => /\ ~last'.ok
             /\ weekEvents' = seedDefaultWeek
             /\ last'.saves >= 1
    ]_vars

\* C12: a replacement with a day outside 0..6, or with a body that is no JSON array,
\* reports failure and leaves the table, the counts, the flags, the relay, its deadline
\* and the stored file as they were, without a call of saveWeekToFS.
C12_InvalidReplaceChangesNothing ==
    [][\A day \in DayArgs : \A j \in TablePayloads : \A o \in BOOLEAN :
          ((day \notin Days \/ j.kind # "array") /\ handleDayPost(day, j, o))
             => /\ ~last'.ok /\ last'.saves = 0
                /\ UNCHANGED <<weekEvents, weekCount, relayOn, relayOffAtMs, pulse, fs>>
    ]_vars

\* a body that is no array was refused for day 3, whose list holds events
C12_Witness ==
    /\ last.op = "day" /\ ~last.ok /\ last.saves = 0 /\ last.day = 3
    /\ weekCount[3] > 0 /\ Len(weekEvents[3]) = weekCount[3]

-----------------------------------------------------------------------------
(* Properties of the state report, under SpecState *)

\* the enabled events of the table, as <<day, index>>
EnabledEvents == {p \in Days \X (1 .. MAX_EVENTS_PER_DAY) :
                    p[2] <= weekCount[p[1]] /\ weekEvents[p[1]][p[2]].enabled}

\* the minutes from now to the next occurrence of event p, on the weekly cycle
MinutesUntil(p) ==
    LET e == weekEvents[p[1]][p[2]]
    IN  (((p[1] * 24 + e.hh) * 60 + e.mm) - ((Now.wday * 24 + Now.hh) * 60 + Now.mm))
           % (NDAYS * 24 * 60)

\* C13: GET /ha/state reports, over the enabled events of all 7 days, the day, time and
\* minutes of the one with the fewest minutes until its next occurrence, counted from
\* the current weekday and time on the weekly cycle, the minutes being in 0..10079; it
\* reports no next event iff the table has no enabled event.
C13_NextEventIsNearest ==
    [][last'.op = "state" =>
        /\ response'.found <=> (EnabledEvents # {})
        /\ response'.found =>
              /\ response'.next_in_min \in 0 .. (NDAYS * 24 * 60 - 1)
              /\ \A q \in EnabledEvents : MinutesUntil(q) >= response'.next_in_min
              /\ \E p \in EnabledEvents :
                    /\ MinutesUntil(p) = response'.next_in_min
                    /\ p[1] = response'.next_day
                    /\ FormatTime(weekEvents[p[1]][p[2]].hh, weekEvents[p[1]][p[2]].mm)
                          = response'.next_time
    ]_vars

\* on Wednesday at 17:00, with enabled events at 16:00 and 18:00 that day, the report
\* names Wednesday 18:00, 60 minutes ahead
C13_Witness ==
    /\ last.op = "state"
    /\ Now.wday = 2 /\ Now.hh = 17 /\ Now.mm = 0
    /\ response.found /\ response.next_day = 2
    /\ response.next_time = FormatTime(18, 0) /\ response.next_in_min = 60
    /\ \E i \in 1 .. weekCount[2] : weekEvents[2][i].enabled /\ weekEvents[2][i].hh = 16

-----------------------------------------------------------------------------
(* Properties of the relay switch, under SpecPulse *)

\* C14: a switch-off command given while a pulse is running switches the relay off at
\* once, whatever the pending deadline, and every later tick leaves the relay off and
\* the deadline alone unless the tick itself fires a scheduled event.
C14_ForceOffStaysOff ==
    [][ /\ handleHaSwitchPost(TRUE, FALSE) => ~relayOn'
        /\ (TickStep /\ ~relayOn /\ last'.fired = 0)
              => (~relayOn' /\ relayOffAtMs' = relayOffAtMs)
    ]_vars

\* a tick has left the relay off after a switch-off given before the deadline of a pulse
C14_Witness ==
    /\ last.op = "tick" /\ last.fired = 0
    /\ ~relayOn /\ pulse.dur = 0
    /\ ~LongNonNeg(U32Sub(nowMs, relayOffAtMs))
    /\ relayOffAtMs[1] < 32768

\* C15: after a switch-on command with no pulse triggered afterwards, every tick leaves
\* the relay on: the direct switch has no auto-off.
C15_SwitchOnStaysOn ==
    [][(TickStep /\ relayOn /\ pulse.dur = 0) => relayOn']_vars

-----------------------------------------------------------------------------
(* Properties of the weekday, under SpecWeek *)

\* C16: the weekday a tick uses is the clock's Sunday-based tm_wday moved to a
\* Monday-based index: 0 gives 6 and w in 1..6 gives w - 1; the result is in 0..6 and
\* different values of tm_wday give different results.
C16_WeekdayRemap ==
    /\ last.op = "tick" =>
          /\ last.day \in Days
          /\ last.day = (clock.tm_wday + NDAYS - 1) % NDAYS
    /\ last.op = "state" => response.day = (clock.tm_wday + NDAYS - 1) % NDAYS
    /\ \A w1, w2 \in Days :
          getLocal([clock EXCEPT !.tm_wday = w1]).wday
             = getLocal([clock EXCEPT !.tm_wday = w2]).wday => w1 = w2

\* a tick on a Sunday (tm_wday 0) has used list 6
C16_Witness == last.op = "tick" /\ clock.tm_wday = 0 /\ last.day = 6

-----------------------------------------------------------------------------
(* Properties of the second gate and of the day change *)

\* C17: a tick whose second is not 0 fires no event and sets no flag; a tick that fires
\* an event reads second 0 and the hour and minute of that event, so an event whose
\* minute has passed is not fired later that day.
C17_MatchOnlyAtSecondZero ==
    [][TickStep =>
        /\ Now.ss # 0 =>
              /\ last'.fired = 0
              /\ \A d \in Days : \A i \in 1 .. weekCount[d] :
                    weekEvents'[d][i].firedToday => weekEvents[d][i].firedToday
              /\ relayOn' => relayOn
        /\ last'.fired > 0 =>
              /\ Now.ss = 0
              /\ SameTime(weekEvents'[Now.wday][last'.fired], Now.hh, Now.mm)
    ]_vars

\* a tick at 23:59 has fired nothing although the enabled 00:10 event of today was
\* never fired
C17_Witness ==
    /\ last.op = "tick" /\ last.fired = 0 /\ last.cleared = 0
    /\ Now.hh = 23 /\ Now.mm = 59
    /\ \E i \in 1 .. weekCount[Now.wday] :
          LET e == weekEvents[Now.wday][i]
          IN  e.enabled /\ ~e.firedToday /\ e.hh = 0 /\ e.mm = 10
    /\ <<0, 10>> \notin firedLog

\* C18: of all ticks that read a given calendar day only the first clears the flags and
\* records the day: a tick that reads a day an earlier tick has read leaves lastYDay
\* and every firedToday as they are, but for the flag of the event it fires.
C18_ResetOncePerDay ==
    [][(TickStep /\ Now.yday \in seenDays) =>
        /\ lastYDay' = lastYDay
        /\ \A d \in Days : \A i \in 1 .. weekCount[d] :
              \/ weekEvents'[d][i].firedToday = weekEvents[d][i].firedToday
              \/ (d = Now.wday /\ i = last'.fired)
    ]_vars

-----------------------------------------------------------------------------
(* Properties of the handler in steps, under SpecSteps *)

\* C19: whenever a tick runs, the list of a day under replacement is either entirely
\* the list before the call or entirely the list the call stores, with its count: a
\* tick runs on no list that is rebuilt in part, and the first tick after the call
\* finds the list the whole handler stores.
C19_TickSeesWholeList ==
    [][TickStep =>
        /\ \A d \in Days : weekCount[d] = Len(weekEvents[d])
        /\ (req.day >= 0 /\ (~req.done \/ last.op = "day")) =>
              /\ weekEvents[req.day] \in {req.before, ParseItems(req.items, 1, <<>>)}
              /\ req.done =>
                    weekEvents = saveDayFromJson(req.day, JsonArray(req.items), fs,
                                    [weekEvents EXCEPT ![req.day] = req.before],
                                    weekCount, last.ok).we
    ]_vars

\* a tick has run after a replacement that turned a list of two events into another
C19_Witness ==
    /\ last.op = "tick" /\ req.day >= 0 /\ req.done
    /\ Len(req.before) = 2 /\ Len(req.items) = 3
    /\ weekCount[req.day] = Len(ParseItems(req.items, 1, <<>>))
    /\ weekCount[req.day] > 0

-----------------------------------------------------------------------------
(* Properties of the capacity, under SpecCapacity *)

\* the list holds the first MAX_EVENTS_PER_DAY events of LongItems, in their order
FirstOfLong(list) ==
    /\ Len(list) = MAX_EVENTS_PER_DAY
    /\ \A i \in 1 .. MAX_EVENTS_PER_DAY : list[i] = EventOf(LongItems[i])

\* C20: every day's list holds between 0 and 64 events after every step; a replacement
\* and a load given 65 valid events store the first 64 in input order and report
\* success, and the default table stays within the capacity.
C20_CapacityKept ==
    [][ /\ \A d \in Days :
              weekCount'[d] \in 0 .. MAX_EVENTS_PER_DAY /\ Len(weekEvents'[d]) = weekCount'[d]
        /\ \A day \in {0, 2} :
              (pc = "handle" /\ last'.op = "day" /\ handleDayPost(day, JsonLong, TRUE))
                 => (last'.ok /\ FirstOfLong(weekEvents'[day]))
        /\ (pc = "setup" /\ pc' = "handle" /\ fs = FileLong)
              => (last'.ok /\ last'.saves = 0 /\ FirstOfLong(weekEvents'[2]))
    ]_vars

\* day 0 was replaced by a body of 65 events and holds 64 of them, the last of 64 s
C20_Witness ==
    /\ last.op = "day" /\ last.ok /\ last.day = 0
    /\ weekCount[0] = MAX_EVENTS_PER_DAY
    /\ weekEvents[0][MAX_EVENTS_PER_DAY].duration = MAX_EVENTS_PER_DAY
    /\ weekEvents[0][MAX_EVENTS_PER_DAY].hh = 1 /\ weekEvents[0][MAX_EVENTS_PER_DAY].mm = 3

-----------------------------------------------------------------------------
(* Properties of the stored events *)

\* C21: every stored event has an hour in 0..23, a minute in 0..59 and a duration of at
\* least 1, whatever times and durations the posted bodies and the stored file hold.
C21_FieldsInRange ==
    \A d \in Days : \A i \in 1 .. weekCount[d] :
        /\ weekEvents[d][i].hh \in 0 .. 23
        /\ weekEvents[d][i].mm \in 0 .. 59
        /\ weekEvents[d][i].duration >= 1

\* the table holds the 07:05 event the stored file gives -3 seconds, and day 3 was
\* replaced by a body with "bad" and with a 10:00 event of 0 seconds
C21_Witness ==
    /\ last.op = "day" /\ last.day = 3
    /\ weekEvents[3] = <<Event(9, 0, 10, TRUE, FALSE), Event(10, 0, 1, TRUE, FALSE)>>
    /\ \E i \in 1 .. weekCount[1] : weekEvents[1][i] = Event(7, 5, 1, TRUE, FALSE)

\* C22: a tick leaves every day's event count and the hour, minute, duration and
\* enabled of every event as they were: firedToday is the only field of the table a
\* tick writes.
C22_TickKeepsSchedule ==
    [][TickStep =>
        /\ weekCount' = weekCount
        /\ \A d \in Days :
              /\ Len(weekEvents'[d]) = Len(weekEvents[d])
              /\ \A i \in 1 .. weekCount[d] :
                    [weekEvents'[d][i] EXCEPT !.firedToday = FALSE]
                       = [weekEvents[d][i] EXCEPT !.firedToday = FALSE]
    ]_vars

\* a tick on a new day has cleared a flag and fired an event of a table that holds a
\* disabled event
C22_Witness ==
    /\ last.op = "tick" /\ last.cleared > 0 /\ last.fired > 0
    /\ \E d \in Days : \E i \in 1 .. weekCount[d] : ~weekEvents[d][i].enabled

\* C23: a tick fires only an event of the current weekday's list that is enabled, at
\* the current hour and minute and not flagged as fired (once the tick's own day-change
\* reset is done); no other event gets its flag set, and the relay and its deadline
\* change only by the auto-off when nothing is fired.
C23_OnlyTodaysEnabledEvents ==
    [][TickStep =>
        /\ last'.fired > 0 =>
              LET e == weekEvents[Now.wday][last'.fired]
              IN  /\ last'.fired <= weekCount[Now.wday]
                  /\ e.enabled /\ SameTime(e, Now.hh, Now.mm)
                  /\ (~e.firedToday \/ lastYDay # Now.yday)
        /\ \A d \in Days : \A i \in 1 .. weekCount[d] :
              (weekEvents'[d][i].firedToday /\ ~weekEvents[d][i].firedToday)
                 => (d = Now.wday /\ i = last'.fired)
        /\ last'.fired = 0 => (relayOffAtMs' = relayOffAtMs /\ (relayOn' => relayOn))
    ]_vars

\* a tick at second 0 of the minute of a disabled, unflagged event of today has fired
\* nothing
C23_Witness ==
    /\ last.op = "tick" /\ last.fired = 0 /\ Now.ss = 0
    /\ \E i \in 1 .. weekCount[Now.wday] :
          LET e == weekEvents[Now.wday][i]
          IN  ~e.enabled /\ ~e.firedToday /\ SameTime(e, Now.hh, Now.mm)

-----------------------------------------------------------------------------
(* Properties of the pulse and the wall clock, under SpecSync *)

\* C24: setting the wall clock changes neither the relay nor its deadline nor millis(),
\* and a pulse still ends at the first tick pulse.dur seconds of millis() after its
\* trigger, whatever the wall clock was set to in between.
C24_ClockSetKeepsPulse ==
    [][ /\ last'.op = "ntp" =>
              (relayOn' = relayOn /\ relayOffAtMs' = relayOffAtMs /\ nowMs' = nowMs)
        /\ (TickStep /\ pulse'.dur > 0) =>
              /\ relayOn' <=> (uptime - pulse'.at < pulse'.dur * 1000)
              /\ relayOffAtMs' = U32Add(U32OfInt(pulse'.at), U32SecToMs(pulse'.dur))
    ]_vars

\* the wall clock was set to another day half a second or more into a running pulse,
\* whose deadline is still the trigger time + pulse.dur seconds
C24_Witness ==
    /\ last.op = "ntp" /\ last.ok
    /\ lastYDay >= 0 /\ clock.tm_yday # lastYDay
    /\ relayOn /\ pulse.dur > 0
    /\ uptime > pulse.at /\ uptime - pulse.at < pulse.dur * 1000
    /\ relayOffAtMs = U32Add(U32OfInt(pulse.at), U32SecToMs(pulse.dur))

-----------------------------------------------------------------------------
(* Properties of the pulse across the wrap of millis(), under SpecWrap *)

\* the longest duration in seconds whose milliseconds are below 2^31
LongMaxSec == ((W16 \div 2 - 1) * W16 + (W16 - 1)) \div 1000

\* millis() when the latest relay command was given
PulseStart == U32Sub(nowMs, U32OfInt(uptime - pulse.at))

\* C25: for a pulse of d seconds with d * 1000 < 2^31 triggered at any value of the
\* 32-bit millis(), the deadline is that value + d * 1000 modulo 2^32, no tick before
\* d seconds have passed switches the relay off and the first tick at or after them
\* does, also when the deadline or millis() wraps past 2^32 in between.
C25_PulseAcrossWrap ==
    [][ /\ (last'.op = "trigger" /\ pulse'.dur <= LongMaxSec) =>
              /\ relayOn'
              /\ relayOffAtMs' = U32Add(nowMs, U32OfInt(pulse'.dur * 1000))
        /\ (TickStep /\ relayOn /\ pulse.dur > 0 /\ pulse.dur <= LongMaxSec) =>
              IF uptime - pulse.at < pulse.dur * 1000
              THEN relayOn' /\ relayOffAtMs' = relayOffAtMs
              ELSE ~relayOn'
    ]_vars

\* a tick has switched the relay off 2 seconds after a trigger given before the wrap,
\* with the deadline and millis() beyond it
C25_Witness ==
    /\ last.op = "tick" /\ ~relayOn
    /\ pulse.dur = 2 /\ uptime - pulse.at = 2000
    /\ PulseStart[1] = W16 - 1
    /\ relayOffAtMs[1] = 0 /\ nowMs = relayOffAtMs

====
